---- MODULE Spec2Model ----
(***************************************************************************)
(* A state-machine model of the interactive particle tree: the gesture     *)
(* producer (HandController), the shared interaction signal               *)
(* (InteractionRef), the mode poll and UI toggle (App) and the render tick *)
(* of the tree (LuxuryTree.useFrame).                                      *)
(*                                                                         *)
(* Fixed point: landmark coordinates and distances are in hundredths       *)
(* (0.05 is 5), velocities, scales and progress in thousandths (0.05 is    *)
(* 50, 1.0 is 1000), time in milliseconds.                                 *)
(*                                                                         *)
(* React state is a pair: the value of the last render, which is what the  *)
(* closures of effects and frame callbacks read (treeState, focusId,       *)
(* hoveredId), and the value the queued updates amount to                  *)
(* (treeStatePending, focusIdPending, hoveredIdPending), which the next    *)
(* render commits.                                                         *)
(***************************************************************************)
EXTENDS Integers, Sequences, FiniteSets, TLC

VARIABLES
    \* InteractionRef (Overlay.tsx 160-165, initial value 75-80)
    rotationVelocity, zoomVelocity, triggerFocus, targetMode,
    \* HandController (HandController.tsx 12-22)
    hcPhase, error, loaded, handLandmarker, mounted, stream, now,
    lastPinchTime, pinchCount, isPinching,
    \* App (Overlay.tsx 72, 83-91)
    treeState, treeStatePending, pollTreeState,
    \* LuxuryTree (Experience.tsx 185-190, 303-304)
    focusId, focusIdPending, hoveredId, hoveredIdPending,
    transitionProgress, currentRotation, target,
    dummy, photoMatrix, frameMatrix, hoverMesh, tickError, easeT, written,
    focusMesh,
    \* Experience (Experience.tsx 17, 38): the camera's distance to the origin
    camera,
    \* ArixTree (HandController.tsx 342-352)
    progress, arixEaseT, arixWritten, run,
    \* AmbientSystem (part_000 68-86, 132-173)
    dustPos, dustLast, dustWritten, nAmbient,
    \* the particle arrays of the three components, the last generated point
    groups, conePoint,
    \* history: the last operation, what the last gesture tick saw, counters
    lastOp, seen, ev, hold, wristY, nSet, nEdge, nConsume, nFocusToggle,
    nPoll, nToggle, nModeChange

signalVars == <<rotationVelocity, zoomVelocity, triggerFocus, targetMode>>
gestureVars == <<lastPinchTime, pinchCount, isPinching>>
hcVars == <<hcPhase, error, loaded, handLandmarker, mounted, stream>>
appVars == <<treeState, treeStatePending, pollTreeState>>
selVars == <<focusId, focusIdPending, hoveredId, hoveredIdPending>>
frameVars == <<transitionProgress, currentRotation, target, dummy, photoMatrix,
               frameMatrix, hoverMesh, tickError, easeT, written>>
arixVars == <<progress, arixEaseT, arixWritten, run>>
ambientVars == <<dustPos, dustLast, dustWritten, nAmbient>>
sceneVars == <<arixVars, ambientVars, conePoint, focusMesh, camera>>
histVars == <<seen, ev, hold, wristY, nSet, nEdge, nConsume, nFocusToggle, nPoll, nToggle,
              nModeChange>>
vars == <<signalVars, gestureVars, hcVars, now, appVars, selVars, frameVars,
          sceneVars, groups, lastOp, histVars>>

-----------------------------------------------------------------------------
\* Bounds of the model

\* performance.now() runs from 0 to MaxNow milliseconds
MaxNow == 800
\* each history counter stops the operation it counts at MaxCount
MaxCount == 2
\* Math.random() is sampled at multiples of 1/RandomDen
RandomDen == 1000
\* the rotation accumulator is followed up to +-MaxRotation thousandths
MaxRotation == 100
\* the ticks of a run of equal ticks are counted up to MaxRun
MaxRun == 50
\* the largest coordinate of the focus visual and the largest camera distance
\* that are told apart, in thousandths
MaxFar == 40000

-----------------------------------------------------------------------------
\* Program constants

PHOTO_COUNT == 20
SOCK_COUNT == 40
\* numHands: 2
NumHands == 2
\* const pinchThreshold = 0.05, in hundredths
PinchThreshold == 5
\* now - lastPinchTime.current < 500
DoublePinchWindow == 500

NullMode == "null"
\* focusId / hoveredId null
NoId == -1
\* e.instanceId undefined (ThreeEvent.instanceId is number | undefined)
UndefinedId == -2

-----------------------------------------------------------------------------
\* HandController.predict: the derivation of the signal from one hand's
\* landmarks. A hand is [avgDist, pinchDist, x, y]: the mean distance of the
\* five finger tips to the wrist, the thumb-tip to index-tip distance, and
\* the wrist's coordinates (landmarks[0]), all in hundredths.

Hands(avgs, pinches, xs, ys) ==
    [avgDist : avgs, pinchDist : pinches, x : xs, y : ys]

HandSeqs(H) == UNION {[1..k -> H] : k \in 0..NumHands}

\* if (avgDist < 0.2) FORMED else if (avgDist > 0.4) CHAOS else null
TargetModeOf(avgDist) ==
    IF avgDist < 20 THEN "FORMED"
    ELSE IF avgDist > 40 THEN "CHAOS"
    ELSE NullMode

\* pinchDist < pinchThreshold
IsPinch(h) == h.pinchDist < PinchThreshold

\* variant: the window includes its end (<= 500)
PinchCountAfterStart_inclusive(count, last, t) ==
    IF t - last <= DoublePinchWindow THEN count + 1 ELSE 1

\* if (now - lastPinchTime.current < 500) pinchCount.current++ else pinchCount.current = 1
PinchCountAfterStart(count, last, t) ==
    IF t - last < DoublePinchWindow THEN count + 1 ELSE 1

\* if (pinchCount.current === 2)
IsDoublePinch(count) == count = 2

\* variant: (landmarks[0].x - 0.5), without the factor 0.1
RotationOf_unscaled(x) == (x - 50) * 10

\* (landmarks[0].x - 0.5) * 0.1, in thousandths
RotationOf(x) == x - 50

\* y < 0.3: 0.05; y > 0.7: -0.05; else 0, in thousandths
ZoomOf(y) ==
    IF y < 30 THEN 50
    ELSE IF y > 70 THEN -50
    ELSE 0

\* ev, the latest pinch start: how many there were (up to 2), lastPinchTime
\* (-1 when it was the first) and pinchCount as it found them, and whether it
\* set triggerFocus.
NoEvent == [n |-> 0, prevTime |-> -1, prevCount |-> 0, fired |-> FALSE]

\* The body of results.landmarks.forEach for one hand, on the state s at time t.
ProcessHand(s, h, t) ==
    LET pinching == IsPinch(h)
        start == pinching /\ ~s.isPinching
        count == IF start
                 THEN PinchCountAfterStart(s.pinchCount, s.lastPinchTime, t)
                 ELSE s.pinchCount
        fire == start /\ IsDoublePinch(count)
    IN  [targetMode |-> TargetModeOf(h.avgDist),
         triggerFocus |-> IF fire THEN TRUE ELSE s.triggerFocus,
         rotationVelocity |-> IF pinching THEN RotationOf(h.x) ELSE 0,
         zoomVelocity |-> ZoomOf(h.y),
         isPinching |-> pinching,
         pinchCount |-> IF fire THEN 0 ELSE count,
         lastPinchTime |-> IF start THEN t ELSE s.lastPinchTime,
         sets |-> s.sets + (IF fire THEN 1 ELSE 0),
         starts |-> s.starts + (IF start THEN 1 ELSE 0),
         edges |-> s.edges + (IF fire /\ ~s.triggerFocus THEN 1 ELSE 0),
         ev |-> IF start
                THEN [n |-> IF s.ev.n = 0 THEN 1 ELSE 2,
                      prevTime |-> IF s.ev.n = 0 THEN -1 ELSE s.lastPinchTime,
                      prevCount |-> s.pinchCount, fired |-> fire]
                ELSE s.ev]

RECURSIVE ProcessHands(_, _, _)
ProcessHands(s, hands, t) ==
    IF hands = <<>> THEN s
    ELSE ProcessHands(ProcessHand(s, Head(hands), t), Tail(hands), t)

\* variant: the no-hands branch resets the whole signal
ProcessNoHands_reset(s) ==
    [s EXCEPT !.rotationVelocity = 0, !.zoomVelocity = 0,
              !.triggerFocus = FALSE]

\* The else branch of results.landmarks.length > 0: no hands.
ProcessNoHands(s) ==
    [s EXCEPT !.rotationVelocity = 0, !.zoomVelocity = 0]

\* variant: predict commits the classified mode itself
ModeAfterGesture_direct(mode, signalled) ==
    IF signalled # NullMode THEN signalled ELSE mode

\* What predict leaves of the committed mode: it writes the signal only.
ModeAfterGesture(mode, signalled) == mode

\* hold, the pinch held by the first detected hand alone: n is the number of
\* predict calls in a row (counted up to 2) that processed hands of which the
\* first pinched and no other did; starts is the number of pinch starts the
\* latest of them counted.
NoHold == [n |-> 0, starts |-> 0]

HoldAfterTick(h, hands, ready, starts) ==
    IF /\ ready
       /\ Len(hands) > 0
       /\ IsPinch(hands[1])
       /\ \A i \in 2..Len(hands) : ~IsPinch(hands[i])
    THEN [n |-> IF h.n < 2 THEN h.n + 1 ELSE 2, starts |-> starts]
    ELSE NoHold

\* wristY: landmarks[0].y of the last hand the latest predict call processed,
\* -1 when it processed none
LastWristY(hands, ready) ==
    IF ready /\ Len(hands) > 0 THEN hands[Len(hands)].y ELSE 0 - 1

\* One call of predict at time now + e: `ready` is video.videoWidth > 0 &&
\* video.videoHeight > 0, `hands` is results.landmarks.
PredictBody(hands, ready, e) ==
    LET t == now + e
        s0 == [targetMode |-> targetMode, triggerFocus |-> triggerFocus,
               rotationVelocity |-> rotationVelocity,
               zoomVelocity |-> zoomVelocity, isPinching |-> isPinching,
               pinchCount |-> pinchCount, lastPinchTime |-> lastPinchTime,
               sets |-> 0, starts |-> 0, edges |-> 0, ev |-> ev]
        s1 == IF ~ready THEN s0
              ELSE IF Len(hands) > 0 THEN ProcessHands(s0, hands, t)
              ELSE ProcessNoHands(s0)
    IN  /\ t <= MaxNow
        /\ nSet + s1.sets <= MaxCount
        /\ now' = t
        /\ targetMode' = s1.targetMode
        /\ triggerFocus' = s1.triggerFocus
        /\ rotationVelocity' = s1.rotationVelocity
        /\ zoomVelocity' = s1.zoomVelocity
        /\ isPinching' = s1.isPinching
        /\ pinchCount' = s1.pinchCount
        /\ lastPinchTime' = s1.lastPinchTime
        /\ treeStatePending' = ModeAfterGesture(treeStatePending, s1.targetMode)
        /\ seen' = IF ~ready THEN "noframe"
                   ELSE IF Len(hands) > 0 THEN "hands" ELSE "nohands"
        /\ ev' = s1.ev
        /\ hold' = HoldAfterTick(hold, hands, ready, s1.starts)
        /\ wristY' = LastWristY(hands, ready)
        /\ nSet' = nSet + s1.sets
        /\ nEdge' = nEdge + s1.edges
        /\ UNCHANGED <<sceneVars, groups,
                   treeState, pollTreeState, selVars, frameVars, nConsume,
                       nFocusToggle, nPoll, nToggle, nModeChange>>

-----------------------------------------------------------------------------------------------------------------------------------------------------
\* HandController's effect: setupMediaPipe, the 'loadeddata' listener and the
\* requestAnimationFrame loop. hcPhase is the place the asynchronous setup
\* has reached: resolving, creating, camera (awaiting getUserMedia), waiting
\* (listener added, awaiting 'loadeddata'), running (a predict callback is
\* scheduled), stopped (predict returned without rescheduling), failed.

\* variant: a failed step does not end the setup
NextPhase_continue(phase, ok) ==
    IF phase = "resolving" THEN "creating"
    ELSE IF phase = "creating" THEN "camera"
    ELSE "waiting"

\* The phase after an awaited step: the catch block, or the else branch of
\* line 39, ends the setup; otherwise the next statement runs.
NextPhase(phase, ok) ==
    IF ~ok THEN "failed"
    ELSE IF phase = "resolving" THEN "creating"
    ELSE IF phase = "creating" THEN "camera"
    ELSE "waiting"

\* setError(...) where `failed` holds: a state update of an unmounted
\* component is dropped.
SetError(err, failed) == IF mounted THEN failed ELSE err

\* await FilesetResolver.forVisionTasks(...)
ResolveVision(ok) ==
    /\ hcPhase = "resolving"
    /\ hcPhase' = NextPhase(hcPhase, ok)
    /\ error' = SetError(error, ~ok)
    /\ lastOp' = "setup"
    /\ UNCHANGED <<sceneVars, groups, mounted, stream,
                   signalVars, gestureVars, loaded, handLandmarker, now, appVars,
                   selVars, frameVars, histVars>>

\* await HandLandmarker.createFromOptions(...), then the test of line 39:
\* `supported` is navigator.mediaDevices && getUserMedia; videoRef.current
\* is the video element while the component is mounted, null after.
CreateLandmarker(ok, supported) ==
    /\ hcPhase = "creating"
    /\ hcPhase' = NextPhase(hcPhase, ok /\ supported /\ mounted)
    /\ handLandmarker' = IF ok THEN "open" ELSE handLandmarker
    /\ error' = SetError(error, ~(ok /\ supported /\ mounted))
    /\ lastOp' = "setup"
    /\ UNCHANGED <<sceneVars, groups, mounted, stream,
                   signalVars, gestureVars, loaded, now, appVars, selVars,
                   frameVars, histVars>>

\* await navigator.mediaDevices.getUserMedia(...), then
\* videoRef.current.srcObject = stream, which throws into the catch block
\* when videoRef.current is null, then addEventListener
GetUserMedia(ok) ==
    /\ hcPhase = "camera"
    /\ hcPhase' = NextPhase(hcPhase, ok /\ mounted)
    /\ stream' = IF ok THEN "live" ELSE stream
    /\ error' = SetError(error, ~(ok /\ mounted))
    /\ lastOp' = "setup"
    /\ UNCHANGED <<sceneVars, groups, mounted,
                   signalVars, gestureVars, loaded, handLandmarker, now, appVars,
                   selVars, frameVars, histVars>>

\* if (!handLandmarker || !videoRef.current || !canvasRef.current) return;
\* the video and the canvas are rendered unless the error view is, and the
\* refs are null once the component is unmounted.
CanPredict == handLandmarker # "null" /\ ~error /\ mounted

\* One call of predict: the early return of line 58, or the body and
\* requestAnimationFrame(predict).
PredictCall(hands, ready, e) ==
    IF CanPredict
    THEN /\ PredictBody(hands, ready, e)
         /\ hcPhase' = "running"
         /\ lastOp' = "predict"
    ELSE /\ hcPhase' = "stopped"
         /\ lastOp' = "setup"
         /\ UNCHANGED <<sceneVars, groups,
                   signalVars, gestureVars, now, appVars, selVars,
                        frameVars, histVars>>

\* the 'loadeddata' listener: setLoaded(true); predict()
LoadedData(hands, ready, e) ==
    /\ hcPhase = "waiting"
    /\ loaded' = (IF mounted THEN TRUE ELSE loaded)
    /\ PredictCall(hands, ready, e)
    /\ UNCHANGED <<error, handLandmarker, mounted, stream>>

\* predict, called back by requestAnimationFrame
Predict(hands, ready, e) ==
    /\ hcPhase = "running"
    /\ PredictCall(hands, ready, e)
    /\ UNCHANGED <<error, loaded, handLandmarker, mounted, stream>>

\* what the cleanup does to the camera stream: nothing
StreamAfterCleanup(st) == st

\* The cleanup of the effect, at unmount: handLandmarker.close() if it is
\* set, cancelAnimationFrame(animationFrameId). The awaits of setupMediaPipe
\* still resume after it.
Cleanup ==
    /\ mounted
    /\ mounted' = FALSE
    /\ handLandmarker' = IF handLandmarker = "open" THEN "closed"
                         ELSE handLandmarker
    /\ hcPhase' = IF hcPhase = "running" THEN "stopped" ELSE hcPhase
    /\ stream' = StreamAfterCleanup(stream)
    /\ lastOp' = "cleanup"
    /\ UNCHANGED <<signalVars, gestureVars, error, loaded, now, appVars, selVars,
                   frameVars, sceneVars, groups, histVars>>

-----------------------------------------------------------------------------
\* The particle arrays: each is built by a useMemo factory with an empty
\* dependency list and written to its instance buffer by a forEach (or a for
\* loop up to the count) in every tick. An array is its length and the number
\* of times its factory has run.

BRANCH_COUNT == 3000
BALL_COUNT == 200
HAT_COUNT == 40
\* ArixTree: COUNT, ORNAMENT_COUNT, DUST_COUNT
COUNT == 1500
ORNAMENT_COUNT == 150
ArixDustCount == 400
\* AmbientSystem: DUST_COUNT
DUST_COUNT == 2000

LuxuryGroups == {"branches", "balls", "hats", "socks", "photos"}
ArixGroups == {"needles", "ornaments", "dust"}
AmbientGroups == {"ambientDust"}
AllGroups == LuxuryGroups \cup ArixGroups \cup AmbientGroups

CountOf(g) ==
    CASE g = "branches" -> BRANCH_COUNT
      [] g = "balls" -> BALL_COUNT
      [] g = "hats" -> HAT_COUNT
      [] g = "socks" -> SOCK_COUNT
      [] g = "photos" -> PHOTO_COUNT
      [] g = "needles" -> COUNT
      [] g = "ornaments" -> ORNAMENT_COUNT
      [] g = "dust" -> ArixDustCount
      [] g = "ambientDust" -> DUST_COUNT

\* for (let i = 0; i < n; i++) data.push({...}); return data
Generated(n, made) == [count |-> n, made |-> made + 1]

\* variant: the factory runs in every render
UseMemo_everyRender(cache, depsChanged, n) == Generated(n, cache.made)

\* useMemo(factory, deps) in a re-render: the cached array unless a
\* dependency changed
UseMemo(cache, depsChanged, n) ==
    IF depsChanged THEN Generated(n, cache.made) ELSE cache

\* A re-render of the components that own the groups G: the dependency lists
\* are empty, so no dependency ever changes.
Rerender(gs, G) ==
    [g \in DOMAIN gs |->
        IF g \in G THEN UseMemo(gs[g], FALSE, CountOf(g)) ELSE gs[g]]

\* array.forEach((p, i) => mesh.setMatrixAt(i, ...)): the number of writes
\* and the last index written, the indices ascending from 0
ForEachWrites(len) == [n |-> len, last |-> len - 1]

NoWrites == [n |-> 0, last |-> 0 - 1]

-----------------------------------------------------------------------------
\* App: the committed mode, its 100 ms poll of targetMode and the UI toggle.

Flip(mode) == IF mode = "FORMED" THEN "CHAOS" ELSE "FORMED"

\* variant: the null test is missing
PollUpdate_noNullTest(signalled, closure, pending) ==
    IF signalled # closure THEN signalled ELSE pending

\* if (target && target !== treeState) setTreeState(target): the mode the
\* queued updates amount to after the interval callback, whose closure holds
\* the treeState of the render that created the interval.
PollUpdate(signalled, closure, pending) ==
    IF signalled # NullMode /\ signalled # closure THEN signalled ELSE pending

\* the setInterval callback, but for the count of its firings
PollFire ==
    /\ treeStatePending' = PollUpdate(targetMode, pollTreeState, treeStatePending)
    /\ lastOp' = "poll"
    /\ UNCHANGED <<sceneVars, groups,
                   signalVars, gestureVars, hcVars, now, treeState, pollTreeState,
                   selVars, frameVars, seen, ev, hold, wristY, nSet, nEdge, nConsume,
                   nFocusToggle, nToggle, nModeChange>>

\* the setInterval callback, one of the first MaxCount firings
Poll ==
    /\ nPoll < MaxCount
    /\ PollFire
    /\ nPoll' = nPoll + 1

\* the setInterval callback, a firing after the first MaxCount: the timer
\* fires every 100 ms for as long as App is mounted
PollOn ==
    /\ nPoll >= MaxCount
    /\ PollFire
    /\ nPoll' = nPoll

\* variant: the effect has no dependency and its timer is never re-created
ClosureAfterEffect_noDeps(closure, rendered) == closure

\* useEffect(..., [treeState]): the treeState the interval callback closes
\* over once the effect of a render has run
ClosureAfterEffect(closure, rendered) == rendered

\* variant: the toggle flips the treeState of its closure, not prev
ToggleUpdate_closure(rendered, pending) == Flip(rendered)

\* setTreeState((prev) => prev === FORMED ? CHAOS : FORMED)
ToggleUpdate(rendered, pending) == Flip(pending)

\* toggleState, the Overlay button's onClick. A click is a discrete event:
\* React renders, and runs the effects of the render, before the handler's
\* task ends.
ToggleState ==
    /\ nToggle < MaxCount
    /\ LET next == ToggleUpdate(treeState, treeStatePending)
       IN  /\ treeStatePending' = next
           /\ treeState' = next
           /\ pollTreeState' = ClosureAfterEffect(pollTreeState, next)
           /\ nModeChange' = nModeChange + (IF next # treeState THEN 1 ELSE 0)
    /\ groups' = Rerender(groups, AllGroups)
    /\ nToggle' = nToggle + 1
    /\ lastOp' = "toggle"
    /\ UNCHANGED <<sceneVars,
                   signalVars, gestureVars, hcVars, now, selVars, frameVars,
                   seen, ev, hold, wristY, nSet, nEdge, nConsume, nFocusToggle, nPoll>>

\* React renders App with the queued updates applied; the effects of the
\* render before it have run by then.
RenderApp ==
    /\ treeStatePending # treeState
    /\ treeState' = treeStatePending
    /\ pollTreeState' = ClosureAfterEffect(pollTreeState, treeState)
    /\ nModeChange' = nModeChange + 1
    /\ groups' = Rerender(groups, AllGroups)
    /\ lastOp' = "renderApp"
    /\ UNCHANGED <<sceneVars,
                   signalVars, gestureVars, hcVars, now, treeStatePending,
                   selVars, frameVars, seen, ev, hold, wristY, nSet, nEdge, nConsume,
                   nFocusToggle, nPoll, nToggle>>

\* The effect of [treeState]: clearInterval of the old timer, setInterval of
\* a new one whose callback closes over the rendered treeState.
PollEffect ==
    /\ pollTreeState # treeState
    /\ pollTreeState' = ClosureAfterEffect(pollTreeState, treeState)
    /\ lastOp' = "effect"
    /\ UNCHANGED <<sceneVars, groups,
                   signalVars, gestureVars, hcVars, now, treeState,
                   treeStatePending, selVars, frameVars, histVars>>

-----------------------------------------------------------------------------
\* LuxuryTree: the render tick (useFrame), the focus and hover state.

\* exp(-z) for z >= 0, z and the result in ten-thousandths: the series up to
\* z^8/8! for z <= 0.5, the square of exp(-z/2) above.
RECURSIVE ExpNeg(_)
ExpNeg(z) ==
    IF z > 5000
    THEN LET r == ExpNeg(z \div 2) IN (r * r + 5000) \div 10000
    ELSE LET t1 == z
             t2 == (t1 * z) \div 20000
             t3 == (t2 * z) \div 30000
             t4 == (t3 * z) \div 40000
             t5 == (t4 * z) \div 50000
             t6 == (t5 * z) \div 60000
             t7 == (t6 * z) \div 70000
             t8 == (t7 * z) \div 80000
         IN  10000 - t1 + t2 - t3 + t4 - t5 + t6 - t7 + t8

\* MathUtils.lerp(x, y, t) = (1 - t) * x + t * y, x and y in thousandths, t in
\* ten-thousandths, rounded to the nearest thousandth
Lerp(x, y, t) == ((10000 - t) * x + t * y + 5000) \div 10000

\* variant: the rate is lost, lerp(x, y, 1 - exp(-0 * dt))
Damp_noRate(x, y, lambda, dt) == Lerp(x, y, 10000 - ExpNeg(0 * dt))

\* MathUtils.damp(x, y, lambda, dt) = lerp(x, y, 1 - exp(-lambda * dt)),
\* lambda in tenths, dt in milliseconds
Damp(x, y, lambda, dt) == Lerp(x, y, 10000 - ExpNeg(lambda * dt))

\* variant: t * t * (3 - 4 * t)
EaseT_steep(t) == (t * t * (3000 - 4 * t)) \div 1000000

\* const easeT = t * t * (3 - 2 * t), t and the result in thousandths
EaseT(t) == (t * t * (3000 - 2 * t)) \div 1000000

\* variant: the tick consumes the velocity it applied
VelocityAfterTick_reset(velocity) == 0

\* what a render tick leaves of rotationVelocity: it only reads it
VelocityAfterTick(velocity) == velocity

\* currentRotation.current += interactionRef.current.rotationVelocity
RotationAfterTick(rotation, velocity) == rotation + velocity

\* const target = treeState === TreeState.FORMED ? 1 : 0
TargetOf(mode) == IF mode = "FORMED" THEN 1000 ELSE 0

\* variant: Math.round instead of Math.floor
RandomPhoto_round(u) == (u * PHOTO_COUNT + RandomDen \div 2) \div RandomDen

\* Math.floor(Math.random() * PHOTO_COUNT), Math.random() being u / RandomDen
RandomPhoto(u) == (u * PHOTO_COUNT) \div RandomDen

\* if (focusId === null) setFocusId(random) else setFocusId(null): the value
\* the callback's closure reads is the focusId of the last render.
FocusAfterTrigger(rendered, pending, u) ==
    IF rendered = NoId THEN RandomPhoto(u) ELSE NoId

\* variant: the tick acts on the trigger and does not clear it
TriggerAfterConsume_kept(trigger) == trigger

\* interactionRef.current.triggerFocus = false
TriggerAfterConsume(trigger) == FALSE

\* A transform is the particle whose interpolated position it holds and a
\* uniform scale in thousandths.
Place(group, id) == [group |-> group, id |-> id]
Transform(place, scale) == [position |-> place, scale |-> scale]

\* photos: scale: 0.4; socks: scale: 0.2
PhotoScale == 400
SockScale == 200

\* scale *= 1.15
HoverScale(scale) == (scale * 115) \div 100

\* dummy after the Socks loop: position, scale and matrix of the last sock
DummyAfterSocks ==
    [position |-> Place("sock", SOCK_COUNT - 1), scale |-> SockScale,
     matrix |-> Transform(Place("sock", SOCK_COUNT - 1), SockScale)]

\* the matrix setMatrixAt receives for the focused photo, after
\* dummy.scale.setScalar(0)
FocusedMatrix(d) == d.matrix

\* The body of photos.forEach for photo i: acc is the scratch object and the
\* two instance buffers.
PhotoStep(acc, i, fid, hid) ==
    IF i = fid
    THEN LET d == [acc.dummy EXCEPT !.scale = 0]
         IN  [dummy |-> d,
              photo |-> [acc.photo EXCEPT ![i] = FocusedMatrix(d)],
              frame |-> [acc.frame EXCEPT ![i] = FocusedMatrix(d)]]
    ELSE LET sc == IF i = hid /\ hid # NoId
                   THEN HoverScale(PhotoScale) ELSE PhotoScale
             m == Transform(Place("photo", i), sc)
             d == [position |-> Place("photo", i), scale |-> sc, matrix |-> m]
         IN  [dummy |-> d,
              photo |-> [acc.photo EXCEPT ![i] = m],
              frame |-> [acc.frame EXCEPT ![i] = m]]

RECURSIVE PhotoLoop(_, _, _, _)
PhotoLoop(acc, i, fid, hid) ==
    IF i = PHOTO_COUNT THEN acc
    ELSE PhotoLoop(PhotoStep(acc, i, fid, hid), i + 1, fid, hid)

\* variant: the hover block does not test hoveredId !== focusId
HoverAfterFrame_noFocusTest(mesh, fid, hid) ==
    IF hid # NoId
    THEN [visible |-> TRUE, position |-> Place("photo", hid),
          scale |-> (PhotoScale * 125) \div 100]
    ELSE [mesh EXCEPT !.visible = FALSE]

\* const p = photos[hoveredId]; p.scatterPosition: the block is entered for
\* every hoveredId that is not null and not focusId, and photos[hoveredId] is
\* undefined outside 0..PHOTO_COUNT-1, so reading its property throws.
HoverThrows(fid, hid) ==
    hid # NoId /\ hid # fid /\ hid \notin 0..(PHOTO_COUNT - 1)

\* The Hover Mesh block: placed on the hovered photo, or hidden
HoverAfterFrame(mesh, fid, hid) ==
    IF hid # NoId /\ hid # fid
    THEN [visible |-> TRUE, position |-> Place("photo", hid),
          scale |-> (PhotoScale * 125) \div 100]
    ELSE [mesh EXCEPT !.visible = FALSE]

\* The focus visual (Experience.tsx 422-429, 518-529): the z coordinate of its
\* position and its uniform scale, in thousandths. x stays 0; y follows the
\* same lerp toward 1.5 and then gets Math.sin(time) * 0.005 added.
FocusTargetZ == 11000
FocusTargetScale == 3500

\* the group as React mounts it when focusId becomes non-null: at the origin
\* of the tree group with scale 1; no group otherwise (the ref is null)
FreshFocusMesh == [mounted |-> TRUE, z |-> 0, scale |-> 1000]
NoFocusMesh == [mounted |-> FALSE, z |-> 0, scale |-> 1000]

\* a coordinate further than MaxFar from the origin is recorded as MaxFar
Far(x) == IF x > MaxFar THEN MaxFar ELSE IF x < 0 - MaxFar THEN 0 - MaxFar ELSE x

\* Vector3.lerp(v, alpha), per component: this.x += (v.x - this.x) * alpha,
\* alpha in thousandths
LerpTo(x, y, alpha) == Far(x + ((y - x) * alpha) \div 1000)

\* delta * 4, in thousandths, delta = dt ms
FocusAlpha(dt) == dt * 4

\* if (focusId !== null && focusMeshRef.current) { position.lerp(targetPos,
\* delta * 4); scale.lerp((3.5, 3.5, 3.5), delta * 4) }
FocusAfterFrame(mesh, fid, dt) ==
    IF fid # NoId /\ mesh.mounted
    THEN [mounted |-> TRUE,
          z |-> LerpTo(mesh.z, FocusTargetZ, FocusAlpha(dt)),
          scale |-> LerpTo(mesh.scale, FocusTargetScale, FocusAlpha(dt))]
    ELSE mesh

\* {focusId !== null && <group ref={focusMeshRef}>}: the group exists while
\* the rendered focusId is non-null and is kept across renders that keep it so
FocusAfterRender(mesh, fid) ==
    IF fid = NoId THEN NoFocusMesh
    ELSE IF mesh.mounted THEN mesh ELSE FreshFocusMesh

\* The useFrame callback of LuxuryTree with delta = dt ms and Math.random()
\* = u / RandomDen. tickError: the callback threw (in its last block, with
\* everything before it done).
Frame(dt, u) ==
    LET rot == RotationAfterTick(currentRotation, rotationVelocity)
        tgt == TargetOf(treeState)
        t == Damp(transitionProgress, tgt, 25, dt)
        res == PhotoLoop([dummy |-> DummyAfterSocks, photo |-> photoMatrix,
                          frame |-> frameMatrix], 0, focusId, hoveredId)
    IN  /\ rot \in -MaxRotation..MaxRotation
        /\ IF triggerFocus
           THEN /\ focusIdPending' = FocusAfterTrigger(focusId, focusIdPending, u)
                /\ triggerFocus' = TriggerAfterConsume(triggerFocus)
                /\ nConsume' = nConsume + 1
           ELSE UNCHANGED <<focusIdPending, triggerFocus, nConsume>>
        /\ currentRotation' = rot
        /\ target' = tgt
        /\ rotationVelocity' = VelocityAfterTick(rotationVelocity)
        /\ transitionProgress' = t
        /\ easeT' = EaseT(t)
        /\ written' = [g \in LuxuryGroups |-> ForEachWrites(groups[g].count)]
        /\ dummy' = res.dummy
        /\ photoMatrix' = res.photo
        /\ frameMatrix' = res.frame
        /\ focusMesh' = FocusAfterFrame(focusMesh, focusId, dt)
        /\ tickError' = HoverThrows(focusId, hoveredId)
        /\ hoverMesh' = IF HoverThrows(focusId, hoveredId) THEN hoverMesh
                        ELSE HoverAfterFrame(hoverMesh, focusId, hoveredId)
        /\ lastOp' = "frame"
        /\ UNCHANGED <<arixVars, ambientVars, conePoint, camera, groups,
                       zoomVelocity, targetMode, gestureVars,
                       hcVars, now, appVars, focusId, hoveredId,
                       hoveredIdPending, seen, ev, hold, wristY, nSet, nEdge, nFocusToggle,
                       nPoll, nToggle, nModeChange>>

\* React renders LuxuryTree with the queued setFocusId / setHoveredId applied.
RenderTree ==
    /\ focusIdPending # focusId \/ hoveredIdPending # hoveredId
    /\ focusId' = focusIdPending
    /\ hoveredId' = hoveredIdPending
    /\ focusMesh' = FocusAfterRender(focusMesh, focusIdPending)
    /\ groups' = Rerender(groups, LuxuryGroups)
    /\ nFocusToggle' = nFocusToggle +
                       (IF (focusId = NoId) # (focusIdPending = NoId) THEN 1 ELSE 0)
    /\ lastOp' = "renderTree"
    /\ UNCHANGED <<arixVars, ambientVars, conePoint, camera,
                   signalVars, gestureVars, hcVars, now, appVars, focusIdPending,
                   hoveredIdPending, frameVars, seen, ev, hold, wristY, nSet, nEdge, nConsume,
                   nPoll, nToggle, nModeChange>>

\* onPointerOver: setHoveredId(e.instanceId)
PointerOver(id) ==
    /\ hoveredIdPending' = id
    /\ lastOp' = "pointer"
    /\ UNCHANGED <<sceneVars, groups,
                   signalVars, gestureVars, hcVars, now, appVars, focusId,
                   focusIdPending, hoveredId, frameVars, histVars>>

\* onPointerOut: setHoveredId(null)
PointerOut ==
    /\ hoveredIdPending' = NoId
    /\ lastOp' = "pointer"
    /\ UNCHANGED <<sceneVars, groups,
                   signalVars, gestureVars, hcVars, now, appVars, focusId,
                   focusIdPending, hoveredId, frameVars, histVars>>

-----------------------------------------------------------------------------
\* ArixTree: the render tick of the needles, ornaments and dust.

\* `run` counts the ticks so far while every one of them had delta 0.1 and
\* target 1 (up to MaxRun); pure is false once another tick has run.
RunAfterTick(r, dt, tgt) ==
    IF r.pure /\ dt = 100 /\ tgt = 1000
    THEN [n |-> IF r.n < MaxRun THEN r.n + 1 ELSE r.n, pure |-> TRUE]
    ELSE [n |-> 0, pure |-> FALSE]

\* The useFrame callback of ArixTree with delta = dt ms
ArixFrame(dt) ==
    LET tgt == TargetOf(treeState)
        t == Damp(progress, tgt, 25, dt)
    IN  /\ progress' = t
        /\ arixEaseT' = EaseT(t)
        /\ arixWritten' = [g \in ArixGroups |-> ForEachWrites(groups[g].count)]
        /\ run' = RunAfterTick(run, dt, tgt)
        /\ lastOp' = "arix"
        /\ UNCHANGED <<signalVars, gestureVars, hcVars, now, appVars, selVars,
                       frameVars, ambientVars, conePoint, focusMesh, camera, groups,
                       histVars>>

-----------------------------------------------------------------------------
\* Square roots, for the generators and the dust spring

RECURSIVE SqrtBetween(_, _, _)
SqrtBetween(n, lo, hi) ==
    IF lo >= hi THEN lo
    ELSE LET mid == (lo + hi + 1) \div 2
         IN  IF mid * mid <= n THEN SqrtBetween(n, mid, hi)
             ELSE SqrtBetween(n, lo, mid - 1)

\* Math.sqrt, rounded down
Sqrt(n) == SqrtBetween(n, 0, 46340)

-----------------------------------------------------------------------------
\* AmbientSystem: the gold dust spring. Positions are in thousandths; the
\* model follows two of the DUST_COUNT points.

\* variant: the normalise-and-force step has no guard (a radius that
\* rounds to 0 divides by the smallest length, 0.001)
DustStep_noGuard(p, speed, jitter, formed, dt) ==
    LET r == Sqrt(p.x * p.x + p.y * p.y + p.z * p.z)
        a == (speed * dt) \div 500
        cos == 10000 - (a * a) \div 20000
        sin == a - (((a * a) \div 1000) * a) \div 600000
        nx == (p.x * cos - p.z * sin) \div 10000
        nz == (p.x * sin + p.z * cos) \div 10000
        ny == p.y + jitter
        targetR == IF formed THEN 6000 ELSE 14000
        force == ((targetR - r) * dt) \div 2000
        d == IF r = 0 THEN 1 ELSE r
    IN  [pos |-> [x |-> nx + (nx * force) \div d,
                  y |-> ny + (ny * force) \div (10 * d),
                  z |-> nz + (nz * force) \div d],
         last |-> [r |-> r, targetR |-> targetR, divided |-> TRUE,
                   rotated |-> [x |-> nx, y |-> ny, z |-> nz]]]

\* One iteration of the for loop over the dust: p is the point, speed is
\* dustData.speeds[i] in thousandths, jitter is Math.sin(time + phase) * 0.01
\* in thousandths, dt is delta in ms.
DustStep(p, speed, jitter, formed, dt) ==
    LET r == Sqrt(p.x * p.x + p.y * p.y + p.z * p.z)
        \* angleSpeed * delta in ten-thousandths of a radian, its cosine and
        \* sine in ten-thousandths
        a == (speed * dt) \div 500
        cos == 10000 - (a * a) \div 20000
        sin == a - (((a * a) \div 1000) * a) \div 600000
        nx == (p.x * cos - p.z * sin) \div 10000
        nz == (p.x * sin + p.z * cos) \div 10000
        ny == p.y + jitter
        targetR == IF formed THEN 6000 ELSE 14000
        force == ((targetR - r) * dt) \div 2000
        divided == r > 100
    IN  [pos |-> IF divided
                 THEN [x |-> nx + (nx * force) \div r,
                       y |-> ny + (ny * force) \div (10 * r),
                       z |-> nz + (nz * force) \div r]
                 ELSE [x |-> nx, y |-> ny, z |-> nz],
         last |-> [r |-> r, targetR |-> targetR, divided |-> divided,
                   rotated |-> [x |-> nx, y |-> ny, z |-> nz]]]

\* dustData.speeds[i] of the two points
DustSpeed == 200

\* The two points after the generator of dustData: r = 15 * cbrt(random)
\* with random 0 (the centre), and a point 0.095 above the centre.
DustStart == <<[x |-> 0, y |-> 0, z |-> 0], [x |-> 0, y |-> 95, z |-> 0]>>

\* The dust part of AmbientSystem's useFrame callback with delta = dt ms
AmbientFrame(dt, jitters) ==
    /\ nAmbient < MaxCount
    /\ LET step == [i \in 1..Len(dustPos) |->
                       DustStep(dustPos[i], DustSpeed, jitters[i],
                                treeState = "FORMED", dt)]
       IN  /\ dustPos' = [i \in 1..Len(dustPos) |-> step[i].pos]
           /\ dustLast' = [i \in 1..Len(dustPos) |-> step[i].last]
    /\ dustWritten' = ForEachWrites(groups["ambientDust"].count)
    /\ nAmbient' = nAmbient + 1
    /\ lastOp' = "ambient"
    /\ UNCHANGED <<signalVars, gestureVars, hcVars, now, appVars, selVars,
                   frameVars, arixVars, conePoint, focusMesh, camera, groups,
                   histVars>>

-----------------------------------------------------------------------------
\* randomInCone: lengths in thousandths, Math.random() = u / RandomDen. A
\* point is its height h before the offset, its y, its distance r to the axis
\* (x = r cos, z = r sin) and the cone's radius at h.

\* variant: the radius does not shrink with the height
RandomInCone_cylinder(height, maxRadius, yOffset, surfaceOnly, u1, u2) ==
    LET y == (u1 * height) \div RandomDen
    IN  [h |-> y, y |-> y - yOffset, r |-> maxRadius,
         rRadius |-> ((height - y) * maxRadius) \div height]

\* randomInCone of LuxuryTree
RandomInCone(height, maxRadius, yOffset, surfaceOnly, u1, u2) ==
    LET y == (u1 * height) \div RandomDen
        rRadius == ((height - y) * maxRadius) \div height
        r == IF surfaceOnly
             THEN (rRadius * (850 + (u2 * 150) \div RandomDen)) \div 1000
             ELSE (Sqrt((u2 * 1000000) \div RandomDen) * rRadius) \div 1000
    IN  [h |-> y, y |-> y - yOffset, r |-> r, rRadius |-> rRadius]

\* randomInCone of ArixTree: on the surface
ArixRandomInCone(height, maxRadius, yOffset, u1) ==
    LET y == (u1 * height) \div RandomDen
        r == ((height - y) * maxRadius) \div height
    IN  [h |-> y, y |-> y - yOffset, r |-> r, rRadius |-> r]

\* the calls: branches, balls, hats, socks, photos; needles, dust
ConeCalls ==
    {[of |-> "branches", height |-> 10000, maxRadius |-> 4000, yOffset |-> 5000, surfaceOnly |-> FALSE],
     [of |-> "balls", height |-> 9000, maxRadius |-> 3800, yOffset |-> 4500, surfaceOnly |-> TRUE],
     [of |-> "hats", height |-> 8000, maxRadius |-> 3500, yOffset |-> 4000, surfaceOnly |-> TRUE],
     [of |-> "socks", height |-> 7000, maxRadius |-> 3200, yOffset |-> 3500, surfaceOnly |-> TRUE],
     [of |-> "photos", height |-> 8000, maxRadius |-> 3500, yOffset |-> 4200, surfaceOnly |-> TRUE],
     [of |-> "needles", height |-> 7000, maxRadius |-> 2500, yOffset |-> 3500, surfaceOnly |-> FALSE],
     [of |-> "dust", height |-> 8000, maxRadius |-> 3500, yOffset |-> 4000, surfaceOnly |-> FALSE]}

\* One call of randomInCone in a factory, with the random numbers u1 and u2
ConeSample(c, u1, u2) ==
    /\ conePoint' =
           [call |-> c,
            point |-> IF c.of \in ArixGroups
                      THEN ArixRandomInCone(c.height, c.maxRadius, c.yOffset, u1)
                      ELSE RandomInCone(c.height, c.maxRadius, c.yOffset,
                                        c.surfaceOnly, u1, u2)]
    /\ lastOp' = "cone"
    /\ UNCHANGED <<signalVars, gestureVars, hcVars, now, appVars, selVars,
                   frameVars, arixVars, ambientVars, focusMesh, camera, groups,
                   histVars>>

-----------------------------------------------------------------------------
\* Experience: the zoom of the camera (Experience.tsx 19-34). The camera is
\* followed by its distance to the origin, in thousandths: pos.lerp(origin,
\* alpha) multiplies every coordinate by 1 - alpha, and OrbitControls (zoom
\* and pan disabled, no distance limits) turns the camera about the origin.

\* <PerspectiveCamera position={[0, 2, 14]}>
CameraStart == Sqrt(2000 * 2000 + 14000 * 14000)

\* Math.abs(zoomVel) > 0.001, zoomVel in thousandths
ZoomActive(zoomVel) == zoomVel > 1 \/ zoomVel < 0 - 1

\* variant: no limit on the distance
ZoomAllowed_noLimit(dist, zoomVel) == zoomVel > 0 \/ zoomVel < 0

\* (dist > 5 && zoomVel > 0) || (dist < 20 && zoomVel < 0)
ZoomAllowed(dist, zoomVel) ==
    (dist > 5000 /\ zoomVel > 0) \/ (dist < 20000 /\ zoomVel < 0)

\* zoomVel * delta * 5, in thousandths, delta = dt ms
ZoomAlpha(zoomVel, dt) == (zoomVel * dt * 5) \div 1000

\* pos.length() after pos.lerp(vec, zoomVel * delta * 5), vec the origin
CameraAfterZoom(dist, zoomVel, dt) ==
    LET d == LerpTo(dist, 0, ZoomAlpha(zoomVel, dt))
    IN  IF d < 0 THEN 0 - d ELSE d

\* The useFrame callback of Experience with delta = dt ms
ZoomFrame(dt) ==
    /\ camera' = IF ZoomActive(zoomVelocity) /\ ZoomAllowed(camera, zoomVelocity)
                 THEN CameraAfterZoom(camera, zoomVelocity, dt)
                 ELSE camera
    /\ lastOp' = "zoom"
    /\ UNCHANGED <<signalVars, gestureVars, hcVars, now, appVars, selVars,
                   frameVars, arixVars, ambientVars, conePoint, focusMesh,
                   groups, histVars>>

-----------------------------------------------------------------------------
\* The state after construction: App's useState / useRef initial values, the
\* HandController refs, LuxuryTree's state and refs, zeroed instance buffers.

ZeroMatrix == Transform(Place("none", 0), 0)

Init ==
    /\ rotationVelocity = 0
    /\ zoomVelocity = 0
    /\ triggerFocus = FALSE
    /\ targetMode = NullMode
    /\ hcPhase = "resolving"
    /\ error = FALSE
    /\ loaded = FALSE
    /\ handLandmarker = "null"
    /\ mounted = TRUE
    /\ stream = "none"
    /\ now = 0
    /\ lastPinchTime = 0
    /\ pinchCount = 0
    /\ isPinching = FALSE
    /\ treeState = "FORMED"
    /\ treeStatePending = "FORMED"
    /\ pollTreeState = "FORMED"
    /\ focusId = NoId
    /\ focusIdPending = NoId
    /\ hoveredId = NoId
    /\ hoveredIdPending = NoId
    /\ transitionProgress = TargetOf("FORMED")
    /\ currentRotation = 0
    /\ target = TargetOf("FORMED")
    /\ dummy = [position |-> Place("none", 0), scale |-> 1000,
                matrix |-> Transform(Place("none", 0), 1000)]
    /\ photoMatrix = [i \in 0..(PHOTO_COUNT - 1) |-> ZeroMatrix]
    /\ frameMatrix = [i \in 0..(PHOTO_COUNT - 1) |-> ZeroMatrix]
    /\ hoverMesh = [visible |-> FALSE, position |-> Place("none", 0), scale |-> 1000]
    /\ tickError = FALSE
    /\ easeT = EaseT(TargetOf("FORMED"))
    /\ written = [g \in LuxuryGroups |-> NoWrites]
    /\ focusMesh = NoFocusMesh
    /\ camera = CameraStart
    /\ progress = 0
    /\ arixEaseT = EaseT(0)
    /\ arixWritten = [g \in ArixGroups |-> NoWrites]
    /\ run = [n |-> 0, pure |-> TRUE]
    /\ dustPos = DustStart
    /\ dustLast = [i \in 1..Len(DustStart) |->
                      [r |-> 0, targetR |-> 0, divided |-> FALSE,
                       rotated |-> DustStart[i]]]
    /\ dustWritten = NoWrites
    /\ nAmbient = 0
    /\ groups = [g \in AllGroups |-> Generated(CountOf(g), 0)]
    /\ conePoint = [call |-> CHOOSE c \in ConeCalls : c.of = "branches",
                    point |-> RandomInCone(10000, 4000, 5000, FALSE, 0, 0)]
    /\ lastOp = "init"
    /\ seen = "none"
    /\ ev = NoEvent
    /\ hold = NoHold
    /\ wristY = 0 - 1
    /\ nSet = 0
    /\ nEdge = 0
    /\ nConsume = 0
    /\ nFocusToggle = 0
    /\ nPoll = 0
    /\ nToggle = 0
    /\ nModeChange = 0

-----------------------------------------------------------------------------
\* Inputs and specifications

\* the time between two calls of predict, in ms
Elapsed == {100, 400}
\* Math.random() * RandomDen
RandomSamples == {0, RandomDen - 1}
\* e.instanceId of a pointer event over the photos
HoverIds == {PHOTO_COUNT - 2, PHOTO_COUNT - 1}

\* hands that pinch or not, in the middle of the image, half open
PinchHands == Hands({30}, {3, 10}, {50}, {50})
\* hands that are a fist, half open or open, not pinching
ModeHands == Hands({10, 30, 50}, {10}, {50}, {50})

Setup ==
    \E ok \in BOOLEAN, supported \in BOOLEAN :
        \/ ResolveVision(ok)
        \/ CreateLandmarker(ok, supported)
        \/ GetUserMedia(ok)

Gesture(H, R, E) ==
    \E hands \in HandSeqs(H), ready \in R, e \in E :
        \/ LoadedData(hands, ready, e)
        \/ Predict(hands, ready, e)

Tick(D) == \E dt \in D, u \in RandomSamples : Frame(dt, u)

Pointer == (\E id \in HoverIds : PointerOver(id)) \/ PointerOut

\* pointer events whose instanceId may be missing
PointerAny ==
    (\E id \in HoverIds \cup {UndefinedId} : PointerOver(id)) \/ PointerOut

\* useFrame's delta, in ms
Deltas == {0, 16, 100, 1000}
\* the delta of a tick after a pause of the frame loop (10 s): every
\* transition completes within it
LongDelta == 10000
\* the delta of a tick at four frames per second: delta * 4 is 1 and the focus
\* visual is at its target after one such tick
QuarterSecond == 250
\* Math.sin(time + phase) * 0.01, in thousandths
Jitters == {0 - 10, 0, 10}
\* Math.random() * RandomDen in randomInCone
ConeSamples ==
    {0, 1, RandomDen \div 4, RandomDen \div 2, (3 * RandomDen) \div 4,
     RandomDen - 1}
\* open hands high in the image, at the two thresholds and low
ZoomHands == Hands({30}, {10}, {50}, {20, 30, 70, 80})

ZoomTick(D) == \E dt \in D : ZoomFrame(dt)

\* pinching or open hands at the left edge, the middle and the right edge
RotateHands == Hands({30}, {3, 10}, {0, 50, 100}, {50})

ArixTick(D) == \E dt \in D : ArixFrame(dt)

AmbientTick(D, J) ==
    \E dt \in D, jitters \in [1..Len(DustStart) -> J] : AmbientFrame(dt, jitters)

Cone ==
    \E c \in ConeCalls, u1 \in ConeSamples, u2 \in ConeSamples :
        ConeSample(c, u1, u2)

\* the transition progress of both trees under toggles and ticks
NextProgress == ToggleState \/ Tick({1000}) \/ ArixTick(Deltas)
SpecProgress == Init /\ [][NextProgress]_vars

\* the particle arrays under ticks, mode changes, focus and hover changes
NextParticles ==
    \/ ResolveVision(TRUE) \/ CreateLandmarker(TRUE, TRUE) \/ GetUserMedia(TRUE)
    \/ Gesture(PinchHands, {TRUE}, {400})
    \/ Frame(LongDelta, 0) \/ RenderTree
    \/ PointerOver(PHOTO_COUNT - 1) \/ PointerOut
    \/ ToggleState
    \/ ArixTick({LongDelta}) \/ AmbientTick({LongDelta}, {0})
SpecParticles == Init /\ [][NextParticles]_vars

\* the generators of the formed positions
NextCone == Cone
SpecCone == Init /\ [][NextCone]_vars

\* the rotation velocity and its accumulator
NextRotation == Setup \/ Gesture(RotateHands, {TRUE}, {200}) \/ Tick({16})
SpecRotation == Init /\ [][NextRotation]_vars

\* the gesture producer and its unmount
NextTeardown == Setup \/ Gesture(PinchHands, BOOLEAN, {200}) \/ Cleanup
SpecTeardown == Init /\ [][NextTeardown]_vars

\* the gold dust under ticks and mode changes
NextDust == ToggleState \/ AmbientTick({16, 1000}, Jitters)
SpecDust == Init /\ [][NextDust]_vars

\* the gesture producer alone: pinch timing
NextGesture == Setup \/ Gesture(PinchHands, BOOLEAN, Elapsed)
SpecGesture == Init /\ [][NextGesture]_vars

\* the gesture producer and the render tick around the focus trigger
NextFocus ==
    Setup \/ Gesture(PinchHands, {TRUE}, {100}) \/ Tick({QuarterSecond})
          \/ RenderTree
SpecFocus == Init /\ [][NextFocus]_vars

\* the photos: focus, hover and the instance buffers
NextPhotos ==
    Setup \/ Gesture(PinchHands, {TRUE}, {200}) \/ Tick({QuarterSecond})
          \/ RenderTree
          \/ Pointer
SpecPhotos == Init /\ [][NextPhotos]_vars

\* the photos, with pointer events that carry no instance id
NextSelection ==
    Setup \/ Gesture(PinchHands, {TRUE}, {200}) \/ Tick({QuarterSecond})
          \/ RenderTree
          \/ PointerAny
SpecSelection == Init /\ [][NextSelection]_vars

\* the committed mode with a poll timer that keeps firing, an effect that
\* runs after every render and a render that follows every queued update
NextCommit ==
    \/ ResolveVision(TRUE) \/ CreateLandmarker(TRUE, TRUE) \/ GetUserMedia(TRUE)
    \/ Gesture(ModeHands, {TRUE}, {200})
    \/ Poll \/ PollOn \/ ToggleState \/ RenderApp \/ PollEffect
SpecCommit ==
    /\ Init /\ [][NextCommit]_vars
    /\ WF_vars(Poll \/ PollOn) /\ WF_vars(RenderApp) /\ WF_vars(PollEffect)

\* the camera under the zoom signal
NextZoom ==
    \/ ResolveVision(TRUE) \/ CreateLandmarker(TRUE, TRUE) \/ GetUserMedia(TRUE)
    \/ Gesture(ZoomHands, {TRUE}, {200})
    \/ ZoomTick({1000})
SpecZoom == Init /\ [][NextZoom]_vars

\* the focus visual under ticks of a tenth and of three tenths of a second
NextFocusMesh ==
    \/ ResolveVision(TRUE) \/ CreateLandmarker(TRUE, TRUE) \/ GetUserMedia(TRUE)
    \/ Gesture(PinchHands, {TRUE}, {200})
    \/ Tick({100, 300}) \/ RenderTree
SpecFocusMesh == Init /\ [][NextFocusMesh]_vars

\* the committed mode: gesture classification, poll, toggle, render tick
NextMode ==
    Setup \/ Gesture(ModeHands, {TRUE}, {200}) \/ Poll \/ ToggleState
          \/ RenderApp \/ PollEffect \/ Tick({1000})
SpecMode == Init /\ [][NextMode]_vars

-----------------------------------------------------------------------------
\* Claims

\* C1: if triggerFocus goes from false to true exactly once (the producer
\* may write true again before a render tick clears it), the focus state
\* toggles exactly once: not before the trigger is consumed and rendered,
\* once after, however many render ticks ran before.
C1_OneShotFocusTrigger ==
    nEdge = 1 =>
        /\ nConsume = (IF triggerFocus THEN 0 ELSE 1)
        /\ nFocusToggle =
               (IF triggerFocus \/ focusIdPending # focusId THEN 0 ELSE 1)

\* the trigger was written twice with no tick between, consumed and rendered
C1_Witness ==
    /\ nSet = 2
    /\ nEdge = 1
    /\ nConsume = 1
    /\ nFocusToggle = 1
    /\ focusId # NoId

\* C2: a gesture tick never changes triggerFocus from true to false; only a
\* render tick does; and triggerFocus is false at the end of every render
\* tick.
C2_TriggerAccessDiscipline ==
    [][/\ lastOp' = "predict" => (triggerFocus => triggerFocus')
       /\ (triggerFocus /\ ~triggerFocus') => lastOp' = "frame"
       /\ lastOp' = "frame" => ~triggerFocus']_vars

\* a render tick has consumed the trigger, the update is not rendered yet
C2_Witness ==
    /\ lastOp = "frame"
    /\ nConsume = 1
    /\ ~triggerFocus
    /\ focusIdPending # focusId

\* C3: two consumed triggers starting from Idle end in Idle.
C3_ToggleNotStack == nConsume = 2 => focusIdPending = NoId

\* C4 as stated: the latest of two pinch starts less than 500 ms apart sets
\* triggerFocus and leaves pinchCount at 0; 500 ms or more apart it sets
\* pinchCount to 1 and does not set triggerFocus.
C4_DoublePinchAsStated ==
    ev.n = 2 =>
        IF lastPinchTime - ev.prevTime < 500
        THEN ev.fired /\ pinchCount = 0
        ELSE ~ev.fired /\ pinchCount = 1

\* C4 amended: the same, for a first pinch start that left pinchCount at 1;
\* after one that completed a double pinch (pinchCount 0), a pinch start
\* less than 500 ms later counts 1 and sets nothing.
C4_DoublePinch ==
    ev.n = 2 =>
        IF lastPinchTime - ev.prevTime < 500
        THEN IF ev.prevCount = 1
             THEN ev.fired /\ pinchCount = 0
             ELSE ~ev.fired /\ pinchCount = 1
        ELSE ~ev.fired /\ pinchCount = 1

\* two pinch starts 300 ms apart made a double pinch
C4_Witness ==
    /\ ev.n = 2
    /\ lastPinchTime - ev.prevTime = 300
    /\ ev.prevCount = 1
    /\ ev.fired
    /\ triggerFocus
    /\ nSet = 1
    /\ pinchCount = 0

\* C5: the committed mode never changes more often than the poll fired and
\* the toggle was used: gesture ticks, however they alternate targetMode,
\* change it only through a poll firing, once per firing at most.
C5_ModeDebounce ==
    /\ nModeChange <= nPoll + nToggle
    /\ nToggle = 0 => nModeChange <= nPoll

\* targetMode was written three times and more, one poll fired, one change
C5_Witness ==
    /\ now >= 600
    /\ nPoll = 1
    /\ nToggle = 0
    /\ nModeChange = 1
    /\ treeState = "CHAOS"
    /\ targetMode = "FORMED"

\* C6: a poll firing changes the mode only if targetMode is non-null and
\* differs from the committed mode, and then to targetMode; a null
\* targetMode, and one equal to the committed mode, change nothing.
C6_ModeCommitCondition ==
    [][lastOp' = "poll" =>
         /\ treeState' = treeState
         /\ treeStatePending' # treeStatePending =>
                /\ targetMode # NullMode
                /\ targetMode # treeState
                /\ treeStatePending' = targetMode
         /\ targetMode = NullMode => treeStatePending' = treeStatePending
         /\ targetMode = treeState => treeStatePending' = treeStatePending]_vars

\* a poll found CHAOS signalled in mode FORMED and queued it
C6_Witness ==
    /\ lastOp = "poll"
    /\ targetMode = "CHAOS"
    /\ treeState = "FORMED"
    /\ treeStatePending = "CHAOS"

\* C7: after a gesture tick that detected no hand both velocities are 0 and
\* no mode is asserted.
C7_NoHandsNeutral ==
    seen = "nohands" =>
        /\ rotationVelocity = 0
        /\ zoomVelocity = 0
        /\ targetMode = NullMode

\* C8: in HandController's error state the setup has ended without a
\* listener or a loop, the signal has its initial value, and the committed
\* mode is where the toggles alone have put it.
C8_SensorUnavailable ==
    error =>
        /\ hcPhase = "failed"
        /\ ~loaded
        /\ rotationVelocity = 0
        /\ zoomVelocity = 0
        /\ ~triggerFocus
        /\ targetMode = NullMode
        /\ treeStatePending = treeState
        /\ treeState = (IF nToggle % 2 = 0 THEN "FORMED" ELSE "CHAOS")

\* the camera failed; the poll fired and the toggle was used once since
C8_Witness ==
    /\ error
    /\ handLandmarker = "open"
    /\ nPoll >= 1
    /\ nToggle = 1
    /\ treeState = "CHAOS"

\* C9: toggleState flips the latest mode, queued updates included, and the
\* flipped mode is rendered; every render tick's target is 1 for FORMED and
\* 0 for CHAOS.
C9_ToggleFlipsMode ==
    [][/\ lastOp' = "toggle" =>
            /\ treeStatePending' = Flip(treeStatePending)
            /\ treeState' = treeStatePending'
       /\ lastOp' = "frame" =>
            /\ treeState = "FORMED" => target' = 1000
            /\ treeState = "CHAOS" => target' = 0]_vars

\* a render tick after a toggle to CHAOS
C9_Witness ==
    /\ lastOp = "frame"
    /\ nToggle = 1
    /\ nPoll = 0
    /\ treeState = "CHAOS"
    /\ target = 0

\* C10: after a render tick with a valid focusId the transforms written for
\* that photo, in the photo and the frame buffer, have scale 0.
C10_FocusedPhotoSuppressed ==
    (lastOp = "frame" /\ focusId \in 0..(PHOTO_COUNT - 1)) =>
        /\ photoMatrix[focusId].scale = 0
        /\ frameMatrix[focusId].scale = 0

\* C11: after a render tick every photo that is not the focused one holds
\* its own interpolated position, with scale 1.15 times the baseline if it is
\* the hovered photo and the baseline otherwise; the hover outline is visible,
\* at the hovered photo's position, exactly when hoveredId is not null and
\* differs from focusId.
C11_HoverTreatment ==
    lastOp = "frame" =>
        /\ \A i \in 0..(PHOTO_COUNT - 1) :
               i # focusId =>
                   /\ photoMatrix[i].position = Place("photo", i)
                   /\ photoMatrix[i].scale =
                          (IF i = hoveredId THEN 460 ELSE 400)
                   /\ frameMatrix[i] = photoMatrix[i]
        /\ hoverMesh.visible <=> (hoveredId # NoId /\ hoveredId # focusId)
        /\ hoverMesh.visible => hoverMesh.position = Place("photo", hoveredId)

\* a tick with the last photo hovered and focused: the outline is hidden
C11_Witness ==
    /\ lastOp = "frame"
    /\ hoveredId = PHOTO_COUNT - 1
    /\ focusId = hoveredId
    /\ ~hoverMesh.visible
    /\ photoMatrix[PHOTO_COUNT - 2].scale = 400

\* C12: a render tick with a hoveredId outside 0..PHOTO_COUNT-1 raises no
\* error and treats it as no selection: no photo is enlarged and the hover
\* outline is hidden.
C12_InvalidIndexNoOp ==
    (lastOp = "frame" /\ hoveredId \notin 0..(PHOTO_COUNT - 1)) =>
        /\ ~tickError
        /\ ~hoverMesh.visible
        /\ \A i \in 0..(PHOTO_COUNT - 1) :
               i # focusId => photoMatrix[i].scale = 400

\* C13: in every tick of either tree the transition progress stays in
\* [0, 1] and moves toward the target of the tick without passing it (up
\* toward 1, down toward 0, never away); and after 50 ticks with delta 0.1
\* and target 1 from progress 0 the progress is above 0.9 (and at most 1).
C13_DampedConvergence ==
    /\ [](/\ progress \in 0..1000
          /\ transitionProgress \in 0..1000
          /\ (run.pure /\ run.n >= 50) => progress > 900)
    /\ [][(lastOp' = "arix" =>
              IF treeState = "FORMED"
              THEN progress <= progress' /\ progress' <= 1000
              ELSE 0 <= progress' /\ progress' <= progress)
          /\ (lastOp' = "frame" =>
              IF treeState = "FORMED"
              THEN transitionProgress <= transitionProgress'
                   /\ transitionProgress' <= 1000
              ELSE 0 <= transitionProgress'
                   /\ transitionProgress' <= transitionProgress)]_vars

\* 50 ticks with delta 0.1 toward 1, from 0
C13_Witness ==
    /\ run.pure
    /\ run.n = 50
    /\ progress > 900
    /\ progress <= 1000
    /\ treeState = "FORMED"

\* C14: the blend factor of either tree is 0 at progress 0, 1 at progress
\* 1, within [0, 1] at every reachable progress, not above the factor of the
\* next larger progress nor below that of the next smaller, and it never
\* moves against the progress from one tick to the next.
C14_EasingBoundary ==
    /\ [](/\ easeT \in 0..1000
          /\ arixEaseT \in 0..1000
          /\ progress = 0 => arixEaseT = 0
          /\ progress = 1000 => arixEaseT = 1000
          /\ transitionProgress = 0 => easeT = 0
          /\ transitionProgress = 1000 => easeT = 1000
          /\ progress < 1000 => arixEaseT <= EaseT(progress + 1)
          /\ progress > 0 => EaseT(progress - 1) <= arixEaseT)
    /\ [][(progress <= progress' => arixEaseT <= arixEaseT')
          /\ (progress >= progress' => arixEaseT >= arixEaseT')
          /\ (transitionProgress <= transitionProgress' => easeT <= easeT')
          /\ (transitionProgress >= transitionProgress' => easeT >= easeT')]_vars

\* a tick left the progress below one half, where the factor is below it
C14_Witness ==
    /\ lastOp = "arix"
    /\ progress \in 1..499
    /\ arixEaseT > 0
    /\ arixEaseT < progress
    /\ arixEaseT = EaseT(progress)

\* C15: every particle array has its configured count and was generated
\* once, whatever ticks, mode changes, focus and hover changes have run, and
\* a tick of a component writes one transform for each index 0..count-1 of
\* each of its groups.
C15_ParticleCount ==
    /\ \A g \in AllGroups : groups[g] = [count |-> CountOf(g), made |-> 1]
    /\ CountOf("branches") = 3000 /\ CountOf("photos") = 20
    /\ CountOf("ambientDust") = 2000
    /\ DOMAIN photoMatrix = 0..(PHOTO_COUNT - 1)
    /\ DOMAIN frameMatrix = 0..(PHOTO_COUNT - 1)
    /\ \A g \in LuxuryGroups :
           written[g] \in {NoWrites, [n |-> CountOf(g), last |-> CountOf(g) - 1]}
    /\ lastOp = "frame" =>
           \A g \in LuxuryGroups : written[g].n = CountOf(g)
    /\ lastOp = "arix" =>
           \A g \in ArixGroups :
               arixWritten[g] = [n |-> CountOf(g), last |-> CountOf(g) - 1]
    /\ lastOp = "ambient" =>
           dustWritten = [n |-> DUST_COUNT, last |-> DUST_COUNT - 1]

\* all three components have ticked after a mode change, a focus and a hover
C15_Witness ==
    /\ nToggle >= 1
    /\ focusId # NoId
    /\ hoveredId # NoId
    /\ lastOp = "frame"
    /\ photoMatrix[focusId].scale # 0
    /\ arixWritten["needles"].n = 1500
    /\ dustWritten.n = 2000

\* C16: a point of randomInCone has its height before the offset in [0, H)
\* and a distance to the axis between 0 and R * (1 - h / H); with surfaceOnly
\* the distance is at least 0.85 times that radius.
C16_ConeBounds ==
    LET c == conePoint.call
        q == conePoint.point
    IN  /\ q.h >= 0
        /\ q.h < c.height
        /\ q.y = q.h - c.yOffset
        /\ q.r >= 0
        /\ q.r * c.height <= c.maxRadius * (c.height - q.h)
        /\ c.surfaceOnly =>
               /\ q.r <= q.rRadius
               /\ q.r >= (850 * q.rRadius) \div 1000

\* a point inside the shell of a surfaceOnly cone, above its base
C16_Witness ==
    /\ lastOp = "cone"
    /\ conePoint.call.surfaceOnly
    /\ conePoint.point.h > 0
    /\ conePoint.point.r > (850 * conePoint.point.rRadius) \div 1000
    /\ conePoint.point.r < conePoint.point.rRadius

\* C17: every render tick adds rotationVelocity to the rotation accumulator
\* and leaves rotationVelocity as it was.
C17_RotationPersistent ==
    [][lastOp' = "frame" =>
          /\ currentRotation' = currentRotation + rotationVelocity
          /\ rotationVelocity' = rotationVelocity]_vars

\* one gesture tick wrote 0.05, two render ticks applied it
C17_Witness ==
    /\ lastOp = "frame"
    /\ now = 200
    /\ rotationVelocity = 50
    /\ currentRotation = 100

C19_Teardown ==
    ~mounted =>
        /\ hcPhase # "running"
        /\ handLandmarker # "open"
        /\ stream # "live"

\* C20: in a tick of the gold dust the normalise-and-force step runs for a
\* point exactly when its radius is above 0.1, a point at or below 0.1 gets
\* the rotation and the jitter only, and the target radius is 6 in FORMED
\* and 14 in CHAOS.
C20_RadialSpringGuard ==
    lastOp = "ambient" =>
        \A i \in 1..Len(dustPos) :
            /\ dustLast[i].divided <=> dustLast[i].r > 100
            /\ dustLast[i].divided => dustLast[i].r > 0
            /\ ~dustLast[i].divided => dustPos[i] = dustLast[i].rotated
            /\ dustLast[i].targetR =
                   (IF treeState = "FORMED" THEN 6000 ELSE 14000)

\* the point at the centre was only jittered, the other one was pulled
\* toward the CHAOS radius
C20_Witness ==
    /\ lastOp = "ambient"
    /\ treeState = "CHAOS"
    /\ dustLast[1].r <= 100
    /\ ~dustLast[1].divided
    /\ dustLast[2].divided
    /\ dustLast[2].targetR = 14000
    /\ dustPos[2] # dustLast[2].rotated

\* C21: while Focused, a render tick moves the focus visual's position and
\* scale toward their targets ((0, 1.5, 11) and 3.5) by a fraction in (0, 1):
\* after the tick each lies between its old value and the target, so the
\* visual never passes the target and never moves away from it.
C21_FocusSmoothing ==
    [][(lastOp' = "frame" /\ focusMesh.mounted /\ focusMesh'.mounted)
       => LET between(x, x2, y) == \/ (x <= x2 /\ x2 <= y)
                                  \/ (y <= x2 /\ x2 <= x)
          IN  /\ between(focusMesh.z, focusMesh'.z, FocusTargetZ)
              /\ between(focusMesh.scale, focusMesh'.scale, FocusTargetScale)]_vars

\* C22: a pinch that the first hand holds over consecutive gesture ticks, no
\* other hand pinching, is one pinch start: the second and later ticks of the
\* hold count no pinch start (and so cannot set triggerFocus), with one or with
\* two hands in view.
C22_SustainedPinchOnce == hold.n = 2 => hold.starts = 0

\* C23: if from some point on targetMode stays at a non-null M and the toggle
\* is not used, the committed mode is eventually M and stays M, the timer
\* being re-created at every committed change.
C23_ModeCommitLiveness ==
    \A M \in {"FORMED", "CHAOS"} :
        <>[](targetMode = M /\ lastOp # "toggle") => <>[](treeState = M)

\* the gesture layer has gone quiet on CHAOS, the timer has been re-created
\* for the committed CHAOS and goes on firing
C23_Witness ==
    /\ now = MaxNow
    /\ targetMode = "CHAOS"
    /\ treeState = "CHAOS"
    /\ pollTreeState = "CHAOS"
    /\ nModeChange >= 1
    /\ nToggle = 0
    /\ nPoll = MaxCount
    /\ lastOp = "poll"

\* C24: focusId, rendered or queued, is null or an index in 0..PHOTO_COUNT-1;
\* at most one photo is the focused one, and the single focus visual exists
\* exactly while the rendered focusId is not null.
C24_FocusIdRange ==
    /\ focusId \in {NoId} \cup 0..(PHOTO_COUNT - 1)
    /\ focusIdPending \in {NoId} \cup 0..(PHOTO_COUNT - 1)
    /\ Cardinality({i \in 0..(PHOTO_COUNT - 1) : i = focusId}) <= 1
    /\ focusMesh.mounted <=> focusId # NoId

\* the largest random number focused the last photo, and a tick has run
C24_Witness ==
    /\ focusId = PHOTO_COUNT - 1
    /\ focusMesh.mounted
    /\ lastOp = "frame"

\* C25: a render tick of Experience moves the camera only when
\* |zoomVelocity| > 0.001 and either zoomVelocity > 0 with the camera further
\* than 5 from the origin (it then comes closer) or zoomVelocity < 0 with the
\* camera nearer than 20 (it then goes further); otherwise the tick, like
\* every other operation, leaves the camera where it is. The gesture layer
\* writes zoomVelocity 0.05 for wrist y < 0.3, -0.05 for wrist y > 0.7 and 0
\* otherwise.
C25_ZoomGating ==
    /\ [](seen = "hands" =>
              zoomVelocity = (IF wristY < 30 THEN 50
                              ELSE IF wristY > 70 THEN 0 - 50 ELSE 0))
    /\ [][(lastOp' = "zoom") =>
              LET active == zoomVelocity > 1 \/ zoomVelocity < 0 - 1
                  inward == zoomVelocity > 0 /\ camera > 5000
                  outward == zoomVelocity < 0 /\ camera < 20000
              IN  ((active /\ inward) => camera' < camera)
                  /\ ((active /\ outward) => camera' > camera)
                  /\ (~(active /\ (inward \/ outward)) => camera' = camera)]_vars
    /\ [][(lastOp' # "zoom") => (camera' = camera)]_vars

\* a raised hand has brought the camera within 5 of the origin, where the
\* ticks stop moving it
C25_Witness ==
    /\ lastOp = "zoom"
    /\ wristY = 20
    /\ zoomVelocity = 50
    /\ camera <= 5000
    /\ camera > 0

====
